---- MODULE Spec2Model ----
(***************************************************************************)
(* Keboola MCP tool adapter for LangChain (src/langchain/                  *)
(* keboola_mcp_tools.py): argument reconciliation, the sync/async bridge   *)
(* of KeboolaMCPTool._run, the per-call MCP session and the tool loader.   *)
(***************************************************************************)
EXTENDS Integers, Sequences, FiniteSets, TLC

(***************************************************************************)
(* Bounds of the model.                                                    *)
(***************************************************************************)
\* longest schema (number of declared properties) that is enumerated
MaxParams == 3
\* the clock advances in steps of TickLen and stops at MaxClock
TickLen == 15
MaxClock == 75
\* the most tool calls an agent run makes
MaxAgentCalls == 2

(***************************************************************************)
(* Program constants.                                                      *)
(***************************************************************************)
\* future.result(timeout=30) in KeboolaMCPTool._run
ToolTimeout == 30
\* future.result(timeout=60) in KeboolaMCPToolLoader.load_tools_sync
LoadSyncTimeout == 60
\* asyncio.wait_for(..., timeout=45.0) in KeboolaMCPToolLoader.load_tools
LoadTimeout == 45

(***************************************************************************)
(* Argument payloads and schemas.                                          *)
(* A payload (a Python dict) is a function from a finite set of keys to    *)
(* values; a schema's `properties` (a Python dict, which keeps insertion   *)
(* order) is a sequence of [name, type] records with distinct names.  An   *)
(* absent `properties` entry reads as the empty dict (line 128).           *)
(***************************************************************************)
ParamNames == {"random_string", "query", "text", "limit"}
ParamTypes == {"string", "integer"}
PayloadKeys == {"query", "random_string", "text", "foo"}
PayloadVals == {"x", "dummy"}

EmptyMap == <<>>

Payloads == UNION {[K -> PayloadVals] : K \in SUBSET PayloadKeys}

ParamDefs == [name : ParamNames, type : ParamTypes]

Schemas ==
    {s \in UNION {[1..n -> ParamDefs] : n \in 0..MaxParams} :
        \A i, j \in DOMAIN s : i # j => s[i].name # s[j].name}

\* the keys of schema_properties
PropNames(schema) == {schema[i].name : i \in DOMAIN schema}

\* bool(d) of a dict d
Truthy(d) == DOMAIN d # {}

\* mutant of FilterArgs: nothing is filtered out
FilterArgsKeepsAll(arguments, schema) == arguments

\* {k: v for k, v in arguments.items() if k in schema_properties}
FilterArgs(arguments, schema) ==
    [k \in (DOMAIN arguments) \cap PropNames(schema) |-> arguments[k]]

\* the indices of the string-typed parameters, in declared order
StringParams(schema) == {i \in DOMAIN schema : schema[i].type = "string"}

\* mutant of FirstStringParam: the first parameter, whatever its type
FirstParamAnyType(schema) == schema[1].name

\* the parameter the for/break loop of lines 142-145 stops at
FirstStringParam(schema) ==
    LET i == CHOOSE i \in StringParams(schema) :
                 \A j \in StringParams(schema) : i <= j
    IN  schema[i].name

\* mutant of QueryFallback: the remapped mapping keeps the `query` key
QueryFallbackKeepsQuery(filtered, arguments, schema) ==
    IF ~Truthy(filtered) /\ "query" \in DOMAIN arguments
       /\ StringParams(schema) # {}
    THEN [k \in {FirstStringParam(schema), "query"} |-> arguments["query"]]
    ELSE filtered

\* lines 140-145: remap `query` onto the first string parameter
QueryFallback(filtered, arguments, schema) ==
    IF ~Truthy(filtered) /\ "query" \in DOMAIN arguments
       /\ StringParams(schema) # {}
    THEN [k \in {FirstStringParam(schema)} |-> arguments["query"]]
    ELSE filtered

\* mutant of Placeholder: the placeholder is never synthesized
PlaceholderNever(arguments, schema) == arguments

\* lines 131-132: the placeholder for tools that need random_string
Placeholder(arguments, schema) ==
    IF ~Truthy(arguments) /\ "random_string" \in PropNames(schema)
    THEN [k \in {"random_string"} |-> "dummy"]
    ELSE arguments

\* mutant of FilterStep: the payload is filtered against an empty schema too
FilterAlways(arguments, schema) ==
    QueryFallback(FilterArgs(arguments, schema), arguments, schema)

\* lines 135-146: filtering against a non-empty schema
FilterStep(arguments, schema) ==
    IF Len(schema) > 0
    THEN QueryFallback(FilterArgs(arguments, schema), arguments, schema)
    ELSE arguments

\* lines 127-146 of _arun_with_args: the arguments sent to the peer
Reconcile(arguments, schema) ==
    FilterStep(Placeholder(arguments, schema), schema)

(***************************************************************************)
(* Inputs of a facade invocation: _run / _arun(tool_input, **kwargs).      *)
(* tool_input is a text of one of the forms                                *)
(*   "empty" (the default ""), "raw" (not JSON), "obj" (a JSON object),    *)
(*   "val" (any other JSON value), "deep" (JSON nested so deeply that      *)
(*   json.loads raises RecursionError, which is no JSONDecodeError).       *)
(***************************************************************************)
NoneVal == "<None>"

MkInput(kw, form, obj, text) ==
    [kwargs |-> kw, form |-> form, obj |-> obj, text |-> text]

SpecInputs ==
    { MkInput([k \in {"text"} |-> "x"], "empty", EmptyMap, ""),
      MkInput(EmptyMap, "raw", EmptyMap, "hello"),
      MkInput(EmptyMap, "empty", EmptyMap, ""),
      MkInput(EmptyMap, "deep", EmptyMap, "[[[["),
      MkInput([k \in {"text"} |-> NoneVal], "empty", EmptyMap, ""),
      MkInput(EmptyMap, "obj", [k \in {"limit"} |-> NoneVal],
              "{\"limit\": null}"),
      MkInput([k \in {"text", "limit"} |-> IF k = "text" THEN "x" ELSE NoneVal],
              "empty", EmptyMap, ""),
      MkInput(EmptyMap, "obj",
              [k \in {"text", "limit"} |-> IF k = "text" THEN "x" ELSE NoneVal],
              "{\"text\": \"x\", \"limit\": null}"),
      MkInput(EmptyMap, "val", EmptyMap, "true"),
      MkInput([k \in {"text"} |-> "x"], "raw", EmptyMap, "hello") }

\* whether decoding the input raises something other than JSONDecodeError
DecodeRaises(inp) == ~Truthy(inp.kwargs) /\ inp.form = "deep"

\* str(json.loads(text)) of a JSON text that is no object: Python's text of
\* the parsed value, which is not always the JSON text
PyStr(text) ==
    IF text = "true" THEN "True"
    ELSE IF text = "false" THEN "False"
    ELSE IF text = "null" THEN "None"
    ELSE text

\* lines 41-58 of _run: kwargs > parsed tool_input > raw tool_input
DecodeArgs(inp) ==
    IF Truthy(inp.kwargs) THEN inp.kwargs
    ELSE IF inp.form = "empty" THEN EmptyMap
    ELSE IF inp.form = "obj" THEN inp.obj
    ELSE IF inp.form = "val" THEN [k \in {"query"} |-> PyStr(inp.text)]
    ELSE [k \in {"query"} |-> inp.text]

\* mutant of DecodeArgsArun: a JSON value that is no object is dropped
DecodeArunDropsValue(inp) ==
    IF Truthy(inp.kwargs) THEN inp.kwargs
    ELSE IF inp.form = "obj" THEN inp.obj
    ELSE IF inp.form = "raw" THEN [k \in {"query"} |-> inp.text]
    ELSE EmptyMap

\* lines 96-113 of _arun: the same steps, written out a second time
DecodeArgsArun(inp) ==
    IF Truthy(inp.kwargs) THEN inp.kwargs
    ELSE IF inp.form = "empty" THEN EmptyMap
    ELSE IF inp.form = "obj" THEN inp.obj
    ELSE IF inp.form = "val" THEN [k \in {"query"} |-> PyStr(inp.text)]
    ELSE [k \in {"query"} |-> inp.text]

\* mutant of DropNone: the None values stay
KeepNone(arguments) == arguments

\* lines 61 / 116: {k: v for k, v in arguments.items() if v is not None}
DropNone(arguments) ==
    [k \in {k \in DOMAIN arguments : arguments[k] # NoneVal} |-> arguments[k]]

(***************************************************************************)
(* The environment a tool server is configured from: each of               *)
(* KBC_STORAGE_API_URL and KBC_STORAGE_TOKEN is set to a value, set to the *)
(* empty text, or not set (os.getenv returns None).                        *)
(***************************************************************************)
EnvVals == {"set", "empty", "unset"}
Envs == [url : EnvVals, token : EnvVals]
EnvSet == [url |-> "set", token |-> "set"]

\* data_analysis_crew.py line 46: `not os.getenv(var)`
Missing(v) == v \in {"empty", "unset"}

(***************************************************************************)
(* The tools a loader has produced (name, schema properties).              *)
(***************************************************************************)
ToolCatalog ==
    << [name |-> "keboola_echo", mcp_tool_name |-> "echo",
        schema |-> <<[name |-> "text", type |-> "string"]>>],
       [name |-> "keboola_list_buckets", mcp_tool_name |-> "list_buckets",
        schema |-> <<[name |-> "random_string", type |-> "string"]>>] >>

(***************************************************************************)
(* Calls, threads, sessions.                                               *)
(***************************************************************************)
Calls == {1, 2}
Sids == {1, 2}
Roles == {"caller", "worker"}

\* mutant of JoinLines: the parts are put together without the newline
JoinWithoutNewline(parts) == parts

\* the text of a content list: '\n'.join(item.text for item in content)
RECURSIVE JoinLines(_)
JoinLines(parts) ==
    IF Len(parts) = 0 THEN <<>>
    ELSE IF Len(parts) = 1 THEN <<parts[1]>>
    ELSE <<parts[1], "\n">> \o JoinLines(Tail(parts))

NoResult == [kind |-> "none", val |-> <<>>]
Text(val) == [kind |-> "text", val |-> val]
Raised(exc) == [kind |-> "raised", val |-> <<exc>>]
ToolList(names) == [kind |-> "tools", val |-> names]

\* line 170: f"Error executing Keboola MCP tool {name}: {str(e)}"
ExecError(name, msg) ==
    Text(<<"Error executing Keboola MCP tool ", name, ": ", msg>>)
\* line 86: f"Error running MCP tool {name}: {str(e)}"
RunError(name, msg) ==
    Text(<<"Error running MCP tool ", name, ": ", msg>>)

(***************************************************************************)
(* State.                                                                  *)
(***************************************************************************)
VARIABLES
    payload,    \* reconciliation: the payload handed to _arun_with_args
    schema,     \* reconciliation: the tool's schema properties
    out1,       \* reconciliation: the reconciled arguments
    out2,       \* reconciliation: out1 reconciled once more
    rpc,        \* reconciliation: "in", "once", "twice" ("off" elsewhere)
    active,     \* the calls that are made
    entry,      \* per call: "run" (_run), "arun" (_arun), "load_sync"
                \* (get_keboola_tools), "dspy_init" (KeboolaDataAnalyst(),
                \* initialize), "dspy_run" (analyze_data), "crew"
                \* (KeboolaDataAnalysisCrew(), run_analysis)
    env,        \* per call: KBC_STORAGE_API_URL and KBC_STORAGE_TOKEN
    loopRunning,\* per call: the calling thread has a running event loop
    input,      \* per call: tool_input and kwargs
    tool,       \* per call: index of the invoked tool in ToolCatalog
    cpc,        \* per call: where the calling thread is
    opc,        \* per call: where the coroutine is
    opThread,   \* per call: the thread that runs the coroutine
    args,       \* per call: the arguments handed to _arun_with_args
    sent,       \* per call: the arguments of the call_tool request
    sess,       \* per call: the coroutine's local session (0: none)
    pending,    \* per call: what the coroutine is about to return or raise
    opResult,   \* per call: what the coroutine returned
    result,     \* per call: what the caller got
    fate,       \* per call: what the peer did
    t0,         \* per call: when future.result started to wait
    tw,         \* per call: when wait_for started
    late,       \* per call: the worker's future completed after the bound
    timedOut,   \* per call: future.result raised TimeoutError
    wloop,      \* per call: the worker's event loop: "none", "running", "closed"
    cloop,      \* per call: the event loops running on the calling thread
    starts,     \* per call: how often the coroutine was started
    reqs,       \* per call: the requests sent to the peer
    launches,   \* per call: the subprocess starts attempted
    now,        \* the clock
    sstate,     \* per session: "unused", "launched", "ready", "closed"
    inflight,   \* per session: requests sent and not answered
    susers,     \* per session: the threads that used it
    slog,       \* per session: the messages sent on it, in order
    initialized,\* the dspy agent: _initialized
    tools,      \* the dspy agent: the names of self.tools
    toolsSess,  \* the dspy agent: the session self.tools are bound to (0: none)
    cleanups,   \* per call: how often mcp_toolset.cleanup() was called
    cleaned,    \* per call: "no", or how cleanup() ended: "ok", "failed"
    reqName,    \* per call: the tool name of the call_tool request
    nextSid     \* the next unused session

recVars == <<payload, schema, out1, out2, rpc>>
cfgVars == <<active, entry, env, loopRunning, input, tool>>
sessVars == <<sstate, inflight, susers, nextSid, slog>>
loopVars == <<wloop, cloop>>
objVars == <<initialized, tools, toolsSess, cleanups, cleaned, reqName>>
countVars == <<starts, reqs, launches>>
callVars == <<cpc, opc, opThread, args, sent, sess, pending, opResult, result,
              fate, t0, tw, late, timedOut, loopVars, countVars>>
vars == <<recVars, cfgVars, callVars, sessVars, objVars, now>>

(***************************************************************************)
(* Reconciliation on its own: every payload against every schema, while    *)
(* no call is made.                                                        *)
(***************************************************************************)
\* a dspy agent as its constructor leaves it (dspy lines 72-73)
AgentFresh ==
    /\ initialized = FALSE
    /\ tools = <<>>
    /\ toolsSess = 0

BridgeIdle ==
    /\ AgentFresh
    /\ active = {}
    /\ entry = [c \in Calls |-> "run"]
    /\ env = [c \in Calls |-> EnvSet]
    /\ loopRunning = [c \in Calls |-> FALSE]
    /\ input = [c \in Calls |-> MkInput(EmptyMap, "empty", EmptyMap, "")]
    /\ tool = [c \in Calls |-> 1]
    /\ cpc = [c \in Calls |-> "unused"]
    /\ opc = [c \in Calls |-> "none"]
    /\ opThread = [c \in Calls |-> "caller"]
    /\ args = [c \in Calls |-> EmptyMap]
    /\ sent = [c \in Calls |-> EmptyMap]
    /\ sess = [c \in Calls |-> 0]
    /\ pending = [c \in Calls |-> NoResult]
    /\ opResult = [c \in Calls |-> NoResult]
    /\ result = [c \in Calls |-> NoResult]
    /\ fate = [c \in Calls |-> "none"]
    /\ t0 = [c \in Calls |-> 0]
    /\ tw = [c \in Calls |-> 0]
    /\ late = [c \in Calls |-> FALSE]
    /\ timedOut = [c \in Calls |-> FALSE]
    /\ wloop = [c \in Calls |-> "none"]
    /\ cloop = [c \in Calls |-> 0]
    /\ starts = [c \in Calls |-> 0]
    /\ reqs = [c \in Calls |-> 0]
    /\ launches = [c \in Calls |-> 0]
    /\ cleanups = [c \in Calls |-> 0]
    /\ cleaned = [c \in Calls |-> "no"]
    /\ reqName = [c \in Calls |-> ""]
    /\ now = 0
    /\ sstate = [s \in Sids |-> "unused"]
    /\ inflight = [s \in Sids |-> 0]
    /\ susers = [s \in Sids |-> {}]
    /\ slog = [s \in Sids |-> <<>>]
    /\ nextSid = 1

InitRec ==
    /\ payload \in Payloads
    /\ schema \in Schemas
    /\ out1 = EmptyMap
    /\ out2 = EmptyMap
    /\ rpc = "in"
    /\ BridgeIdle

ReconcileOnce ==
    /\ rpc = "in"
    /\ out1' = Reconcile(payload, schema)
    /\ rpc' = "once"
    /\ UNCHANGED <<payload, schema, out2, cfgVars, objVars, callVars, sessVars, now>>

ReconcileAgain ==
    /\ rpc = "once"
    /\ out2' = Reconcile(out1, schema)
    /\ rpc' = "twice"
    /\ UNCHANGED <<payload, schema, out1, cfgVars, objVars, callVars, sessVars, now>>

NextRec ==
    \/ ReconcileOnce
    \/ ReconcileAgain

SpecRec == InitRec /\ [][NextRec]_vars

(***************************************************************************)
(* The facade and the loader: one step per await point or blocking call.   *)
(***************************************************************************)
IsLoad(c) == entry[c] = "load_sync"
\* the entries whose session starts with list_tools
IsDiscovery(c) == entry[c] \in {"load_sync", "dspy_init", "dspy_run"}
\* the entries with no except clause around the session: dspy initialize
\* (lines 75-92) and analyze_data (lines 94-126)
Propagates(c) == entry[c] \in {"dspy_init", "dspy_run"}
\* the entries that bridge from synchronous code: _run and load_tools_sync
IsBridge(c) == entry[c] \in {"run", "load_sync"}
ToolName(c) == ToolCatalog[tool[c]].mcp_tool_name
ToolSchema(c) == ToolCatalog[tool[c]].schema
Thread(c) == <<c, opThread[c]>>

\* the bound of the caller's future.result (lines 79 and 274)
WaitBound(c) == IF IsLoad(c) THEN LoadSyncTimeout ELSE ToolTimeout

\* the names of the descriptors of a discovery response; the descriptor
\* "odd" is one that cannot be converted
DiscoveryNames == <<"echo", "list_buckets">>
OddNames == <<"echo", "odd", "list_buckets">>
Descriptors(r) == IF r = "catalog_odd" THEN OddNames ELSE DiscoveryNames

\* whether the descriptor converts: KeboolaMCPTool(...) (lines 239-246) or
\* dspy.Tool.from_mcp_tool (dspy line 88) returns instead of raising
Converts(d) == d # "odd"

\* line 240: name=f"keboola_{mcp_tool.name}"
PrefixedName(n) == "keboola_" \o n

\* lines 239-246: the tool made of a descriptor is exposed under the
\* prefixed name and keeps the peer's name as mcp_tool_name
KeboolaTool(d) == [name |-> PrefixedName(d), mcp_tool_name |-> d]

\* dspy line 88: Tool.from_mcp_tool keeps the peer's name
DspyTool(d) == [name |-> d, mcp_tool_name |-> d]

\* mutant of ConvertLoaded: the first descriptor that fails ends the batch
\* and nothing is returned
ConvertAborts(ds) ==
    IF \A i \in DOMAIN ds : Converts(ds[i])
    THEN [i \in DOMAIN ds |-> KeboolaTool(ds[i])]
    ELSE <<>>

\* lines 223-250: each descriptor is converted inside its own try; one
\* that fails is printed and skipped (`continue`), the others are appended
\* in the order of the response
ConvertLoaded(ds) ==
    LET kept == SelectSeq(ds, Converts)
    IN  [i \in DOMAIN kept |-> KeboolaTool(kept[i])]

\* dspy lines 86-89 / 116-119: the tools appended before a conversion
\* raises (all of them when none does)
ConvertedPrefix(ds) ==
    LET bad == {i \in DOMAIN ds : ~Converts(ds[i])}
        n == IF bad = {} THEN Len(ds)
             ELSE (CHOOSE i \in bad : \A j \in bad : i <= j) - 1
    IN  [i \in 1..n |-> DspyTool(ds[i])]

LoadedTools == ConvertLoaded(DiscoveryNames)

\* the content parts of a call_tool response
ResponseParts(r) ==
    IF r = "ok1" THEN <<"r1">>
    ELSE IF r = "ok2" THEN <<"r1", "r2">>
    ELSE <<"boom">>

ToolResponses == {"ok1", "ok2", "is_error", "rpc_error"}
LoadResponses == {"catalog", "catalog_odd", "bad_response"}
Catalogs == {"catalog", "catalog_odd"}

\* mutant of Failure: the failure leaves the coroutine as an exception
FailureRaises(c, msg) == Raised(msg)

\* what a failure inside the coroutine turns into: the text of lines
\* 169-175 for a tool, the empty list of lines 203-210 for the loader, the
\* exception itself in the dspy agents
Failure(c, msg) ==
    IF IsLoad(c) THEN ToolList(<<>>)
    ELSE IF Propagates(c) THEN Raised(msg)
    ELSE ExecError(ToolName(c), msg)

\* lines 160-167 (tool), 223-254 (loader) and dspy 86-89 (self.tools): the
\* value made of a response
ResponseValue(c, r) ==
    IF r \in Catalogs
    THEN (IF IsLoad(c) THEN ToolList(ConvertLoaded(Descriptors(r)))
          ELSE IF \A i \in DOMAIN Descriptors(r) : Converts(Descriptors(r)[i])
               THEN ToolList(ConvertedPrefix(Descriptors(r)))
          ELSE Failure(c, "conversion failed"))
    ELSE IF r = "bad_response" THEN Failure(c, "bad response")
    ELSE IF r = "rpc_error" THEN Failure(c, "boom")
    ELSE Text(JoinLines(ResponseParts(r)))

\* whether the constructor checks the environment itself: only
\* KeboolaDataAnalysisCrew does (data_analysis_crew.py lines 32, 37-53)
ChecksEnv(c) == entry[c] = "crew"

\* whether os.getenv gives None for one of the two values
HasUnset(e) == e.url = "unset" \/ e.token = "unset"

\* the constructor of the integration point: KeboolaDataAnalysisCrew()
\* raises ValueError when a value is missing; KeboolaMCPToolLoader() (lines
\* 181-190) and KeboolaDataAnalyst() (dspy 61-70) hand the values, None
\* included, to StdioServerParameters, which is not part of this
\* repository: it may accept a None or reject it.
Construct(c) ==
    /\ cpc[c] = "construct"
    /\ \E accepted \in BOOLEAN :
        /\ ChecksEnv(c) => (accepted = (~Missing(env[c].url) /\ ~Missing(env[c].token)))
        /\ (~ChecksEnv(c) /\ ~HasUnset(env[c])) => accepted
        /\ IF accepted
           THEN /\ cpc' = [cpc EXCEPT ![c] =
                      IF entry[c] = "crew" THEN "crew_init" ELSE "dispatch"]
                /\ UNCHANGED result
           ELSE /\ cpc' = [cpc EXCEPT ![c] = "returned"]
                /\ result' = [result EXCEPT ![c] =
                      IF ChecksEnv(c) THEN Raised("ValueError")
                      ELSE Raised("ValidationError")]
    /\ UNCHANGED <<recVars, cfgVars, objVars, loopVars, countVars, sessVars, now, opc,
                   opThread, args, sent, sess, pending, opResult, fate, t0,
                   tw, late, timedOut>>

\* lines 39-61 of _run, 95-116 of _arun: decode the input.  A decoding
\* failure is caught by line 85 in _run and by nothing in _arun.
Decode(c) ==
    /\ cpc[c] = "start"
    /\ IF DecodeRaises(input[c])
       THEN /\ cpc' = [cpc EXCEPT ![c] = "returned"]
            /\ result' = [result EXCEPT ![c] =
                  IF entry[c] = "run"
                  THEN RunError(ToolName(c), "maximum recursion depth exceeded")
                  ELSE Raised("RecursionError")]
            /\ UNCHANGED args
       ELSE /\ cpc' = [cpc EXCEPT ![c] = "dispatch"]
            /\ args' = [args EXCEPT ![c] =
                  IF entry[c] = "arun" THEN DropNone(DecodeArgsArun(input[c]))
                  ELSE DropNone(DecodeArgs(input[c]))]
            /\ UNCHANGED result
    /\ UNCHANGED <<recVars, cfgVars, objVars, loopVars, countVars, sessVars, now, opc, opThread, sent, sess,
                   pending, opResult, fate, t0, tw, late, timedOut>>

\* mutant of HasRunningLoop: the running loop is never noticed
NeverSeesLoop(c) == FALSE

\* lines 65 / 260: asyncio.get_running_loop() returns (it raises RuntimeError
\* when the calling thread has no running loop)
HasRunningLoop(c) == loopRunning[c]

\* mutant of WorkerThread: the coroutine is handed to the caller's own loop
CallerThread(c) == "caller"

\* lines 69-78 / 264-273: run_async runs on a thread of the executor, with
\* an event loop of its own (new_event_loop, set_event_loop)
WorkerThread(c) == "worker"

\* lines 65-79 / 260-274: a loop is running, the coroutine goes to a worker
Submit(c) ==
    /\ cpc[c] = "dispatch"
    /\ IsBridge(c)
    /\ HasRunningLoop(c)
    /\ cpc' = [cpc EXCEPT ![c] = "waiting"]
    /\ opc' = [opc EXCEPT ![c] = "ready"]
    /\ opThread' = [opThread EXCEPT ![c] = WorkerThread(c)]
    /\ t0' = [t0 EXCEPT ![c] = now]
    /\ UNCHANGED <<recVars, cfgVars, objVars, loopVars, countVars, sessVars, now, args, sent, sess, pending,
                   opResult, result, fate, tw, late, timedOut>>

\* executor.submit raises RuntimeError (no thread can be started): the
\* except RuntimeError branch calls asyncio.run under the running loop,
\* which raises RuntimeError again; line 85 turns it into text in _run,
\* nothing catches it in load_tools_sync.
SubmitFails(c) ==
    /\ cpc[c] = "dispatch"
    /\ IsBridge(c)
    /\ HasRunningLoop(c)
    /\ cpc' = [cpc EXCEPT ![c] = "returned"]
    /\ fate' = [fate EXCEPT ![c] = "no_thread"]
    /\ result' = [result EXCEPT ![c] =
          IF IsLoad(c)
          THEN Raised("RuntimeError")
          ELSE RunError(ToolName(c),
                   "asyncio.run() cannot be called from a running event loop")]
    /\ UNCHANGED <<recVars, cfgVars, objVars, loopVars, countVars, sessVars, now, opc, opThread, args, sent,
                   sess, pending, opResult, t0, tw, late, timedOut>>

\* dspy lines 128-137: get_available_tools
GetAvailableTools ==
    IF ~initialized THEN <<>> ELSE [i \in DOMAIN tools |-> tools[i].name]

\* dspy lines 139-166: get_tool_info() without a tool name; the description
\* of each tool is left out
GetToolInfo ==
    IF ~initialized THEN EmptyMap
    ELSE [n \in {tools[i].name : i \in DOMAIN tools} |-> "description"]

\* mutant of Refuses: analyze_data does not look at the flag
RefusesNever(c) == FALSE

\* dspy lines 107-108: `if not self._initialized: raise RuntimeError(...)`
Refuses(c) == entry[c] = "dspy_run" /\ ~initialized

\* dspy lines 107-108: analyze_data / design_pipeline of an agent that is
\* not initialized raises before anything is opened
NotInitialized(c) ==
    /\ cpc[c] = "dispatch"
    /\ Refuses(c)
    /\ cpc' = [cpc EXCEPT ![c] = "returned"]
    /\ fate' = [fate EXCEPT ![c] = "not_initialized"]
    /\ result' = [result EXCEPT ![c] = Raised("RuntimeError")]
    /\ UNCHANGED <<recVars, cfgVars, objVars, loopVars, countVars, sessVars, now, opc, opThread, args, sent,
                   sess, pending, opResult, t0, tw, late, timedOut>>

\* lines 83 / 278 (asyncio.run) and 118 (await): the coroutine runs on the
\* calling thread
RunDirect(c) ==
    /\ cpc[c] = "dispatch"
    /\ ~IsBridge(c) \/ ~HasRunningLoop(c)
    /\ ~Refuses(c)
    /\ cpc' = [cpc EXCEPT ![c] = "in_op"]
    /\ opc' = [opc EXCEPT ![c] = "ready"]
    /\ opThread' = [opThread EXCEPT ![c] = "caller"]
    /\ UNCHANGED <<recVars, cfgVars, objVars, loopVars, countVars, sessVars, now, args, sent, sess, pending,
                   opResult, result, fate, t0, tw, late, timedOut>>

\* lines 126-153 (reconcile, then enter stdio_client) and 196-216
\* (wait_for starts, then enter stdio_client)
\* whether the event loop that runs the coroutine of call c can run: the
\* calling thread is blocked in future.result and in the executor's shutdown
\* (lines 77-79 / 272-274)
CanStep(c) == ~(opThread[c] = "caller" /\ cpc[c] \in {"waiting", "shutdown"})

\* lines 70-73 / 83 / 118 (the coroutine is started: by run_until_complete
\* on the worker's new loop, by asyncio.run on a loop it creates on the
\* calling thread, by await on the caller's loop), then lines 126-153
\* (reconcile, enter stdio_client) and 196-216 (wait_for starts, enter
\* stdio_client)
OpStart(c) ==
    /\ opc[c] = "ready"
    /\ CanStep(c)
    /\ opc' = [opc EXCEPT ![c] = "launching"]
    /\ starts' = [starts EXCEPT ![c] = @ + 1]
    /\ wloop' = [wloop EXCEPT ![c] =
          IF opThread[c] = "worker" THEN "running" ELSE @]
    /\ cloop' = [cloop EXCEPT ![c] =
          IF opThread[c] = "caller" /\ IsBridge(c) THEN @ + 1 ELSE @]
    /\ sent' = [sent EXCEPT ![c] =
          IF IsLoad(c) THEN EmptyMap ELSE Reconcile(args[c], ToolSchema(c))]
    /\ tw' = [tw EXCEPT ![c] = now]
    /\ UNCHANGED <<recVars, cfgVars, objVars, sessVars, now, cpc, opThread, args, sess,
                   pending, opResult, result, fate, t0, late, timedOut, reqs,
                   launches>>

\* mutant of OpenedSid: a session that is still open is used again
SharedSid ==
    IF \E s \in Sids : sstate[s] \in {"launched", "ready"}
    THEN CHOOSE s \in Sids : sstate[s] \in {"launched", "ready"}
    ELSE nextSid

\* lines 153 / 216: stdio_client(self.server_params) starts a subprocess of
\* its own
OpenedSid == nextSid

\* the subprocess is started, the streams are handed to a ClientSession
\* and session.initialize() sends its request (lines 153-155 / 216-218)
LaunchOk(c) ==
    /\ opc[c] = "launching"
    /\ CanStep(c)
    /\ LET s == OpenedSid IN
        /\ sess' = [sess EXCEPT ![c] = s]
        /\ sstate' = [sstate EXCEPT ![s] = "launched"]
        /\ susers' = [susers EXCEPT ![s] = @ \cup {Thread(c)}]
        /\ nextSid' = IF s = nextSid THEN nextSid + 1 ELSE nextSid
        /\ slog' = [slog EXCEPT ![s] = Append(@, "initialize")]
    /\ opc' = [opc EXCEPT ![c] = "handshaking"]
    /\ launches' = [launches EXCEPT ![c] = @ + 1]
    /\ UNCHANGED <<recVars, cfgVars, objVars, loopVars, now, inflight, cpc, opThread,
                   args, sent, pending, opResult, result, fate, t0, tw, late,
                   timedOut, starts, reqs>>

\* the subprocess cannot be started or exits at once
LaunchFails(c) ==
    /\ opc[c] = "launching"
    /\ CanStep(c)
    /\ opc' = [opc EXCEPT ![c] = "closing"]
    /\ fate' = [fate EXCEPT ![c] = "launch_fail"]
    /\ pending' = [pending EXCEPT ![c] = Failure(c, "launch failed")]
    /\ launches' = [launches EXCEPT ![c] = @ + 1]
    /\ UNCHANGED <<recVars, cfgVars, objVars, loopVars, sessVars, now, cpc, opThread,
                   args, sent, sess, opResult, result, t0, tw, late, timedOut,
                   starts, reqs>>

\* the first request of a session: list_tools (lines 221, dspy 83 / 115) or
\* call_tool (line 158)
RequestName(c) == IF IsDiscovery(c) THEN "list_tools" ELSE "call_tool"

\* mutant of FirstMessages: the request is sent before initialize() is done
RequestBeforeHandshake(c) == <<RequestName(c), "initialized">>

\* lines 155-158 / 218-221: `await session.initialize()` completes (its
\* last message is the initialized notification), then the request is sent
FirstMessages(c) == <<"initialized", RequestName(c)>>

\* line 158: call_tool(self.mcp_tool_name, arguments) names the tool as
\* the peer does; list_tools names none
CalledName(c) == IF IsDiscovery(c) THEN "" ELSE ToolName(c)

\* lines 155-158 / 218-221: initialize() is answered, the request is sent
HandshakeOk(c) ==
    /\ opc[c] = "handshaking"
    /\ CanStep(c)
    /\ opc' = [opc EXCEPT ![c] = "awaiting"]
    /\ sstate' = [sstate EXCEPT ![sess[c]] = "ready"]
    /\ inflight' = [inflight EXCEPT ![sess[c]] = @ + 1]
    /\ susers' = [susers EXCEPT ![sess[c]] = @ \cup {Thread(c)}]
    /\ slog' = [slog EXCEPT ![sess[c]] = @ \o FirstMessages(c)]
    /\ reqs' = [reqs EXCEPT ![c] = @ + 1]
    /\ reqName' = [reqName EXCEPT ![c] = CalledName(c)]
    /\ UNCHANGED <<recVars, cfgVars, loopVars, now, nextSid, cpc, opThread,
                   args, sent, sess, pending, opResult, result, fate, t0, tw,
                   late, timedOut, starts, launches, initialized, tools,
                   toolsSess, cleanups, cleaned>>

\* initialize() fails
HandshakeFails(c) ==
    /\ opc[c] = "handshaking"
    /\ CanStep(c)
    /\ opc' = [opc EXCEPT ![c] = "closing"]
    /\ fate' = [fate EXCEPT ![c] = "handshake_fail"]
    /\ pending' = [pending EXCEPT ![c] = Failure(c, "handshake failed")]
    /\ UNCHANGED <<recVars, cfgVars, objVars, loopVars, countVars, sessVars, now, cpc, opThread, args, sent,
                   sess, opResult, result, t0, tw, late, timedOut>>

\* lines 158-167 / 221-252: the peer answers the request; in initialize
\* (dspy 83-91) self.tools is emptied and filled with the tools made of the
\* answer, and the flag is set when all of them were made; in analyze_data
\* (dspy 115-125) the tools are made of the answer and the agent starts
Respond(c, r) ==
    /\ opc[c] = "awaiting"
    /\ CanStep(c)
    /\ r \in (IF IsDiscovery(c) THEN LoadResponses ELSE ToolResponses)
    /\ inflight' = [inflight EXCEPT ![sess[c]] = @ - 1]
    /\ fate' = [fate EXCEPT ![c] = r]
    /\ IF entry[c] = "dspy_run" /\ r = "catalog"
       THEN /\ opc' = [opc EXCEPT ![c] = "agent"]
            /\ UNCHANGED pending
       ELSE /\ opc' = [opc EXCEPT ![c] = "closing"]
            /\ pending' = [pending EXCEPT ![c] = ResponseValue(c, r)]
    /\ IF entry[c] = "dspy_init" /\ r \in Catalogs
       THEN /\ tools' = ConvertedPrefix(Descriptors(r))
            /\ toolsSess' = sess[c]
            /\ initialized' =
                  (initialized \/ \A i \in DOMAIN Descriptors(r) :
                                     Converts(Descriptors(r)[i]))
       ELSE UNCHANGED <<initialized, tools, toolsSess>>
    /\ UNCHANGED <<recVars, cfgVars, loopVars, countVars, now, sstate, susers, nextSid, slog, cpc,
                   opThread, args, sent, sess, opResult, result, t0, tw,
                   late, timedOut, cleanups, cleaned, reqName>>

\* whether wait_for's timeout (line 200) is due for the coroutine of call c
CancelDue(c) ==
    /\ IsLoad(c)
    /\ opc[c] \in {"launching", "handshaking", "awaiting", "closing"}
    /\ fate[c] # "timeout45"
    /\ now - tw[c] >= LoadTimeout

\* mutant of CancelledValue: what discovery had made so far is kept
CancelKeepsPending(c) == pending[c]

\* lines 194, 203-204, 210: after the TimeoutError `tools` is still []
CancelledValue(c) == ToolList(<<>>)

\* lines 198-204: wait_for cancels _load_tools_impl at its await point
Cancel(c) ==
    /\ CancelDue(c)
    /\ CanStep(c)
    /\ opc' = [opc EXCEPT ![c] = "closing"]
    /\ fate' = [fate EXCEPT ![c] = "timeout45"]
    /\ pending' = [pending EXCEPT ![c] = CancelledValue(c)]
    /\ inflight' = IF sess[c] = 0 THEN inflight
                   ELSE [inflight EXCEPT ![sess[c]] = 0]
    /\ UNCHANGED <<recVars, cfgVars, objVars, loopVars, countVars, now, sstate, susers, nextSid, slog, cpc,
                   opThread, args, sent, sess, opResult, result, t0, tw,
                   late, timedOut>>

\* mutant of ClosedState: leaving the scopes leaves the subprocess running
ClosedStateLeaks(st) == st

\* the exit of async with stdio_client / ClientSession terminates the
\* subprocess
ClosedState(st) == "closed"

\* the async with blocks are left (lines 153-154, 216-217), on a return or
\* on an exception alike, and the coroutine returns
ExitScopes(c) ==
    /\ opc[c] = "closing"
    /\ CanStep(c)
    /\ opc' = [opc EXCEPT ![c] = "done"]
    /\ opResult' = [opResult EXCEPT ![c] = pending[c]]
    /\ IF sess[c] = 0
       THEN UNCHANGED <<sstate, susers>>
       ELSE /\ sstate' = [sstate EXCEPT ![sess[c]] = ClosedState(@)]
            /\ susers' = [susers EXCEPT ![sess[c]] = @ \cup {Thread(c)}]
    /\ UNCHANGED <<recVars, cfgVars, objVars, loopVars, countVars, now, inflight, nextSid, slog, cpc, opThread,
                   args, sent, sess, pending, result, fate, t0, tw, late, timedOut>>

\* mutant of LoopAfterRun: run_async returns without closing its loop
LoopLeftRunning == "running"

\* lines 74-75 / 269-270: finally: new_loop.close()
LoopAfterRun == "closed"

\* lines 73-75 / 268-270: run_until_complete returns, the worker's loop is
\* closed, the future completes
WorkerFinish(c) ==
    /\ wloop[c] = "running"
    /\ opc[c] = "done"
    /\ opc' = [opc EXCEPT ![c] = "finished"]
    /\ wloop' = [wloop EXCEPT ![c] = LoopAfterRun]
    /\ late' = [late EXCEPT ![c] = (now - t0[c] >= WaitBound(c))]
    /\ UNCHANGED <<recVars, cfgVars, objVars, cloop, countVars, sessVars, now, cpc, opThread, args, sent,
                   sess, pending, opResult, result, fate, t0, tw, timedOut>>

\* lines 83 / 118 / 278: the coroutine's value is returned (asyncio.run
\* closes the loop it created)
DirectReturn(c) ==
    /\ cpc[c] = "in_op"
    /\ opc[c] = "done"
    /\ cpc' = [cpc EXCEPT ![c] = "returned"]
    /\ result' = [result EXCEPT ![c] = opResult[c]]
    /\ cloop' = [cloop EXCEPT ![c] = IF IsBridge(c) THEN @ - 1 ELSE @]
    /\ UNCHANGED <<recVars, cfgVars, objVars, wloop, countVars, sessVars, now, opc, opThread, args, sent,
                   sess, pending, opResult, fate, t0, tw, late, timedOut>>

\* mutant of FutureValue: run_async drops the coroutine's value
FutureValueLost(c) == Text(<<"None">>)

\* lines 73 / 268: run_async returns what run_until_complete returned
FutureValue(c) == opResult[c]

\* lines 79 / 274: future.result returns the worker's value
GetResult(c) ==
    /\ cpc[c] = "waiting"
    /\ opc[c] = "finished"
    /\ cpc' = [cpc EXCEPT ![c] = "returned"]
    /\ result' = [result EXCEPT ![c] = FutureValue(c)]
    /\ UNCHANGED <<recVars, cfgVars, objVars, loopVars, countVars, sessVars, now, opc, opThread, args, sent,
                   sess, pending, opResult, fate, t0, tw, late, timedOut>>

\* whether future.result's timeout is due for the caller of call c
TimeoutDue(c) ==
    /\ cpc[c] = "waiting"
    /\ opc[c] # "finished"
    /\ now - t0[c] >= WaitBound(c)

\* lines 79 / 274: future.result raises TimeoutError inside the with block
TimeoutFire(c) ==
    /\ TimeoutDue(c)
    /\ cpc' = [cpc EXCEPT ![c] = "shutdown"]
    /\ timedOut' = [timedOut EXCEPT ![c] = TRUE]
    /\ UNCHANGED <<recVars, cfgVars, objVars, loopVars, countVars, sessVars, now, opc, opThread, args, sent,
                   sess, pending, opResult, result, fate, t0, tw, late>>

\* mutant of ShutdownWaits: the executor is shut down without waiting
ShutdownNoWait(c) == TRUE

\* lines 77 / 272: leaving `with ThreadPoolExecutor()` is
\* executor.shutdown(wait=True), which joins the worker thread
ShutdownWaits(c) == opc[c] = "finished"

\* lines 77-86 / 272-281: the with block is left, the TimeoutError reaches
\* `except Exception`
ShutdownDone(c) ==
    /\ cpc[c] = "shutdown"
    /\ ShutdownWaits(c)
    /\ cpc' = [cpc EXCEPT ![c] = "returned"]
    /\ result' = [result EXCEPT ![c] =
          IF IsLoad(c) THEN ToolList(<<>>) ELSE RunError(ToolName(c), "")]
    /\ UNCHANGED <<recVars, cfgVars, objVars, loopVars, countVars, sessVars, now, opc, opThread, args, sent,
                   sess, pending, opResult, fate, t0, tw, late, timedOut>>

\* whether call c has a timer running: the caller's future.result, or the
\* loader's wait_for
TimerArmed(c) ==
    \/ cpc[c] \in {"waiting", "shutdown"}
    \/ IsLoad(c) /\ opc[c] \in {"launching", "handshaking", "awaiting", "closing"}

\* time passes while a timer runs, unless a timeout that is due has not
\* been acted on
Tick ==
    /\ now + TickLen <= MaxClock
    /\ \E c \in active : TimerArmed(c)
    /\ \A c \in active : ~TimeoutDue(c) /\ ~CancelDue(c)
    /\ now' = now + TickLen
    /\ UNCHANGED <<recVars, cfgVars, objVars, callVars, sessVars>>

\* mutant of AgentToolSession: the agent is given the tools that
\* initialize() stored
StoredToolSession(c) == toolsSess

\* dspy lines 116-122: the tools handed to ReAct are the session_tools made
\* by this call, each bound to the session this call opened
AgentToolSession(c) == sess[c]

\* dspy 121-125: the ReAct agent calls one of its tools
AgentCall(c) ==
    /\ opc[c] = "agent"
    /\ reqs[c] < 1 + MaxAgentCalls
    /\ opc' = [opc EXCEPT ![c] = "agent_wait"]
    /\ inflight' = [inflight EXCEPT ![AgentToolSession(c)] = @ + 1]
    /\ susers' = [susers EXCEPT ![AgentToolSession(c)] = @ \cup {Thread(c)}]
    /\ slog' = [slog EXCEPT ![AgentToolSession(c)] = Append(@, "call_tool")]
    /\ reqs' = [reqs EXCEPT ![c] = @ + 1]
    /\ UNCHANGED <<recVars, cfgVars, objVars, loopVars, now, sstate, nextSid, cpc,
                   opThread, args, sent, sess, pending, opResult, result, fate,
                   t0, tw, late, timedOut, starts, launches>>

\* the peer answers the agent's tool call
AgentAnswer(c) ==
    /\ opc[c] = "agent_wait"
    /\ opc' = [opc EXCEPT ![c] = "agent"]
    /\ inflight' = [inflight EXCEPT ![AgentToolSession(c)] = @ - 1]
    /\ UNCHANGED <<recVars, cfgVars, objVars, loopVars, countVars, now, sstate, susers,
                   nextSid, slog, cpc, opThread, args, sent, sess, pending,
                   opResult, result, fate, t0, tw, late, timedOut>>

\* dspy 125-126: agent.acall returns its prediction, or raises
AgentDone(c) ==
    /\ opc[c] = "agent"
    /\ opc' = [opc EXCEPT ![c] = "closing"]
    /\ \E ok \in BOOLEAN :
          pending' = [pending EXCEPT ![c] =
              IF ok THEN Text(<<"analysis">>) ELSE Raised("agent failed")]
    /\ UNCHANGED <<recVars, cfgVars, objVars, loopVars, countVars, sessVars, now, cpc,
                   opThread, args, sent, sess, opResult, result, fate, t0, tw,
                   late, timedOut>>

\* data_analysis_crew.py lines 94-111, 206: mcp_toolset.initialize() starts
\* the tool server and discovers its tools, or fails; the failure is
\* printed and raised again (109-111, 230-232)
CrewInitialize(c) ==
    /\ cpc[c] = "crew_init"
    /\ launches' = [launches EXCEPT ![c] = @ + 1]
    /\ \E ok \in BOOLEAN :
          IF ok
          THEN /\ cpc' = [cpc EXCEPT ![c] = "crew_build"]
               /\ UNCHANGED <<pending, fate>>
          ELSE /\ cpc' = [cpc EXCEPT ![c] = "crew_cleanup"]
               /\ pending' = [pending EXCEPT ![c] = Raised("initialize failed")]
               /\ fate' = [fate EXCEPT ![c] = "crew_init_fail"]
    /\ UNCHANGED <<recVars, cfgVars, objVars, loopVars, sessVars, now, opc, opThread,
                   args, sent, sess, opResult, result, t0, tw, late,
                   timedOut, starts, reqs>>

\* data_analysis_crew.py lines 209-218: create_agents(), create_tasks() and
\* Crew(...), any of which may raise
CrewBuild(c) ==
    /\ cpc[c] = "crew_build"
    /\ \E ok \in BOOLEAN :
          IF ok
          THEN /\ cpc' = [cpc EXCEPT ![c] = "crew_kickoff"]
               /\ UNCHANGED <<pending, fate>>
          ELSE /\ cpc' = [cpc EXCEPT ![c] = "crew_cleanup"]
               /\ pending' = [pending EXCEPT ![c] = Raised("create failed")]
               /\ fate' = [fate EXCEPT ![c] = "crew_build_fail"]
    /\ UNCHANGED <<recVars, cfgVars, objVars, loopVars, countVars, sessVars, now, opc,
                   opThread, args, sent, sess, opResult, result, t0, tw,
                   late, timedOut>>

\* data_analysis_crew.py lines 223-232: crew.kickoff() runs; its result is
\* returned or its exception raised again
CrewKickoff(c) ==
    /\ cpc[c] = "crew_kickoff"
    /\ cpc' = [cpc EXCEPT ![c] = "crew_cleanup"]
    /\ \E ok \in BOOLEAN :
          /\ pending' = [pending EXCEPT ![c] =
                IF ok THEN Text(<<"crew result">>) ELSE Raised("kickoff failed")]
          /\ fate' = [fate EXCEPT ![c] =
                IF ok THEN "crew_ok" ELSE "crew_kickoff_fail"]
    /\ UNCHANGED <<recVars, cfgVars, objVars, loopVars, countVars, sessVars, now, opc,
                   opThread, args, sent, sess, opResult, result, t0, tw,
                   late, timedOut>>

\* mutant of AfterCleanup: a failure of cleanup() replaces what run_analysis
\* was about to return or raise
CleanupFailureWins(c, ok) ==
    IF ok THEN pending[c] ELSE Raised("cleanup failed")

\* data_analysis_crew.py lines 236-239: the failure of cleanup() is caught
\* and printed, so the finally block ends normally and the return value or
\* the exception on its way out stays
AfterCleanup(c, ok) == pending[c]

\* data_analysis_crew.py lines 233-239: finally: mcp_toolset.cleanup()
CrewCleanup(c) ==
    /\ cpc[c] = "crew_cleanup"
    /\ cpc' = [cpc EXCEPT ![c] = "returned"]
    /\ cleanups' = [cleanups EXCEPT ![c] = @ + 1]
    /\ \E ok \in BOOLEAN :
          /\ cleaned' = [cleaned EXCEPT ![c] = IF ok THEN "ok" ELSE "failed"]
          /\ result' = [result EXCEPT ![c] = AfterCleanup(c, ok)]
    /\ UNCHANGED <<recVars, cfgVars, loopVars, countVars, sessVars, now, opc,
                   opThread, args, sent, sess, pending, opResult, fate, t0,
                   tw, late, timedOut, initialized, tools, toolsSess, reqName>>

Next ==
    \/ \E c \in active : Construct(c)
    \/ \E c \in active : Decode(c)
    \/ \E c \in active : Submit(c)
    \/ \E c \in active : SubmitFails(c)
    \/ \E c \in active : RunDirect(c)
    \/ \E c \in active : OpStart(c)
    \/ \E c \in active : LaunchOk(c)
    \/ \E c \in active : LaunchFails(c)
    \/ \E c \in active : HandshakeOk(c)
    \/ \E c \in active : HandshakeFails(c)
    \/ \E c \in active : \E r \in ToolResponses \cup LoadResponses : Respond(c, r)
    \/ \E c \in active : Cancel(c)
    \/ \E c \in active : ExitScopes(c)
    \/ \E c \in active : WorkerFinish(c)
    \/ \E c \in active : DirectReturn(c)
    \/ \E c \in active : GetResult(c)
    \/ \E c \in active : TimeoutFire(c)
    \/ \E c \in active : ShutdownDone(c)
    \/ Tick

\* the integration points: the bridge and the facade, and with them the
\* dspy agent and the crew
NextPoints ==
    \/ Next
    \/ \E c \in active : AgentCall(c)
    \/ \E c \in active : AgentAnswer(c)
    \/ \E c \in active : AgentDone(c)
    \/ \E c \in active : CrewInitialize(c)
    \/ \E c \in active : CrewBuild(c)
    \/ \E c \in active : CrewKickoff(c)
    \/ \E c \in active : CrewCleanup(c)

\* the ways one call can be made
CallConfigs ==
    {cf \in [entry : {"run", "arun", "load_sync"}, loop : BOOLEAN,
             input : SpecInputs, tool : DOMAIN ToolCatalog, env : {EnvSet}] :
        /\ cf.entry = "arun" => cf.loop
        /\ cf.entry = "load_sync" =>
              /\ cf.input = MkInput(EmptyMap, "empty", EmptyMap, "")
              /\ cf.tool = 1}

InitCalls(act, cfs) ==
    /\ active = act
    /\ entry = [c \in Calls |-> cfs[c].entry]
    /\ env = [c \in Calls |-> cfs[c].env]
    /\ loopRunning = [c \in Calls |-> cfs[c].loop]
    /\ input = [c \in Calls |-> cfs[c].input]
    /\ tool = [c \in Calls |-> cfs[c].tool]
    /\ cpc = [c \in Calls |->
                IF c \notin act THEN "unused"
                ELSE IF cfs[c].entry \in {"load_sync", "dspy_init", "crew"}
                     THEN "construct"
                ELSE IF cfs[c].entry = "dspy_run" THEN "dispatch"
                ELSE "start"]
    /\ opc = [c \in Calls |-> "none"]
    /\ opThread = [c \in Calls |-> "caller"]
    /\ args = [c \in Calls |-> EmptyMap]
    /\ sent = [c \in Calls |-> EmptyMap]
    /\ sess = [c \in Calls |-> 0]
    /\ pending = [c \in Calls |-> NoResult]
    /\ opResult = [c \in Calls |-> NoResult]
    /\ result = [c \in Calls |-> NoResult]
    /\ fate = [c \in Calls |-> "none"]
    /\ t0 = [c \in Calls |-> 0]
    /\ tw = [c \in Calls |-> 0]
    /\ late = [c \in Calls |-> FALSE]
    /\ timedOut = [c \in Calls |-> FALSE]
    /\ wloop = [c \in Calls |-> "none"]
    /\ cloop = [c \in Calls |-> IF cfs[c].loop THEN 1 ELSE 0]
    /\ starts = [c \in Calls |-> 0]
    /\ reqs = [c \in Calls |-> 0]
    /\ launches = [c \in Calls |-> 0]
    /\ cleanups = [c \in Calls |-> 0]
    /\ cleaned = [c \in Calls |-> "no"]
    /\ reqName = [c \in Calls |-> ""]
    /\ now = 0
    /\ sstate = [s \in Sids |-> "unused"]
    /\ inflight = [s \in Sids |-> 0]
    /\ susers = [s \in Sids |-> {}]
    /\ slog = [s \in Sids |-> <<>>]
    /\ nextSid = 1

RecIdle ==
    /\ payload = EmptyMap
    /\ schema = <<>>
    /\ out1 = EmptyMap
    /\ out2 = EmptyMap
    /\ rpc = "off"

IdleConfig == [entry |-> "run", loop |-> FALSE,
               input |-> MkInput(EmptyMap, "empty", EmptyMap, ""), tool |-> 1,
               env |-> EnvSet]

\* one invocation, made in every way
Init ==
    /\ RecIdle
    /\ AgentFresh
    /\ \E cf \in CallConfigs :
          InitCalls({1}, [c \in Calls |-> IF c = 1 THEN cf ELSE IdleConfig])

Spec == Init /\ [][Next]_vars

\* the same, where a step that can be taken is taken at last: the threads
\* run and the peer answers
SpecLive == Init /\ [][Next]_vars /\ WF_vars(Next)

\* one use of an integration point, under every environment: discovery by
\* get_keboola_tools, KeboolaDataAnalyst() and initialize(), analyze_data
\* of an initialized agent, KeboolaDataAnalysisCrew() and run_analysis;
\* and every invocation of a tool made by discovery
NoInput == MkInput(EmptyMap, "empty", EmptyMap, "")

PointConfigs ==
    {cf \in [entry : {"load_sync", "dspy_init", "dspy_run", "crew"},
             loop : BOOLEAN, input : {NoInput}, tool : {1}, env : Envs] :
        /\ cf.entry \in {"dspy_init", "dspy_run"} => cf.loop
        /\ cf.entry = "crew" => ~cf.loop
        /\ cf.entry = "dspy_run" => cf.env = EnvSet}

\* a dspy agent after an initialize() that completed (dspy lines 86-91);
\* the discovery session its tools are bound to is closed and is not one
\* of the sessions opened later
AgentReady ==
    /\ initialized = TRUE
    /\ tools = ConvertedPrefix(DiscoveryNames)
    /\ toolsSess = 0

InitPoints ==
    /\ RecIdle
    /\ \E cf \in CallConfigs \cup PointConfigs :
          /\ InitCalls({1}, [c \in Calls |-> IF c = 1 THEN cf ELSE IdleConfig])
          /\ IF cf.entry = "dspy_run" THEN AgentReady ELSE AgentFresh

SpecPoints == InitPoints /\ [][NextPoints]_vars

\* a second call is made when the first has returned: on the same agent,
\* or of the same tool
StartSecond ==
    /\ active = {1}
    /\ cpc[1] = "returned"
    /\ active' = {1, 2}
    /\ cpc' = [cpc EXCEPT ![2] =
                IF entry[2] \in {"run", "arun"} THEN "start" ELSE "dispatch"]
    /\ UNCHANGED <<recVars, objVars, sessVars, loopVars, countVars, now, entry,
                   env, loopRunning, input, tool, opc, opThread, args, sent,
                   sess, pending, opResult, result, fate, t0, tw, late,
                   timedOut>>

\* one dspy agent, made by KeboolaDataAnalyst() or KeboolaPipelineEngineer(),
\* and two calls of its methods, one after the other: initialize() or
\* analyze_data / design_pipeline, in every order
AgentConfigs ==
    [entry : {"dspy_init", "dspy_run"}, loop : {TRUE}, input : {NoInput},
     tool : {1}, env : {EnvSet}]

InitAgent ==
    /\ RecIdle
    /\ AgentFresh
    /\ \E cf1 \in AgentConfigs, cf2 \in AgentConfigs :
          InitCalls({1}, [c \in Calls |-> IF c = 1 THEN cf1 ELSE cf2])

NextAgent ==
    \/ \E c \in active : Construct(c)
    \/ \E c \in active : NotInitialized(c)
    \/ \E c \in active : RunDirect(c)
    \/ \E c \in active : OpStart(c)
    \/ \E c \in active : LaunchOk(c)
    \/ \E c \in active : LaunchFails(c)
    \/ \E c \in active : HandshakeOk(c)
    \/ \E c \in active : HandshakeFails(c)
    \/ \E c \in active : \E r \in LoadResponses : Respond(c, r)
    \/ \E c \in active : ExitScopes(c)
    \/ \E c \in active : DirectReturn(c)
    \/ \E c \in active : AgentCall(c)
    \/ \E c \in active : AgentAnswer(c)
    \/ \E c \in active : AgentDone(c)
    \/ StartSecond

SpecAgent == InitAgent /\ [][NextAgent]_vars

\* one tool invoked twice with the same input, one call after the other:
\* first through _arun, then through _run, from a thread with or without a
\* running loop
PairConfigs ==
    {cfs \in [Calls -> CallConfigs] :
        /\ cfs[1].entry = "arun"
        /\ cfs[2].entry = "run"
        /\ cfs[2].input = cfs[1].input
        /\ cfs[2].tool = cfs[1].tool}

InitPair ==
    /\ RecIdle
    /\ AgentFresh
    /\ \E cfs \in PairConfigs : InitCalls({1}, cfs)

NextPair ==
    \/ \E c \in active : Decode(c)
    \/ \E c \in active : Submit(c)
    \/ \E c \in active : SubmitFails(c)
    \/ \E c \in active : RunDirect(c)
    \/ \E c \in active : OpStart(c)
    \/ \E c \in active : LaunchOk(c)
    \/ \E c \in active : LaunchFails(c)
    \/ \E c \in active : HandshakeOk(c)
    \/ \E c \in active : HandshakeFails(c)
    \/ \E c \in active : \E r \in ToolResponses : Respond(c, r)
    \/ \E c \in active : ExitScopes(c)
    \/ \E c \in active : WorkerFinish(c)
    \/ \E c \in active : DirectReturn(c)
    \/ \E c \in active : GetResult(c)
    \/ \E c \in active : TimeoutFire(c)
    \/ \E c \in active : ShutdownDone(c)
    \/ Tick
    \/ StartSecond

SpecPair == InitPair /\ [][NextPair]_vars

\* two calls at the same time, from two threads: call 1 comes from a thread
\* without a running loop and is an invocation of a tool or a discovery,
\* call 2 invokes the same tool with the same input from a thread whose
\* loop is running
FreeText == MkInput(EmptyMap, "raw", EmptyMap, "hello")

ConcConfigs(c) ==
    {cf \in CallConfigs :
        /\ cf.tool = 1
        /\ cf.entry # "arun"
        /\ cf.entry = "run" => cf.input = FreeText
        /\ cf.loop = (c = 2)
        /\ c = 2 => cf.entry = "run"}

InitConc ==
    /\ RecIdle
    /\ AgentFresh
    /\ \E cf1 \in ConcConfigs(1), cf2 \in ConcConfigs(2) :
          InitCalls(Calls, [c \in Calls |-> IF c = 1 THEN cf1 ELSE cf2])

SpecConc == InitConc /\ [][Next]_vars

(***************************************************************************)
(* Claims about reconciliation (checked under SpecRec).                    *)
(***************************************************************************)
PlaceholderArgs == [k \in {"random_string"} |-> "dummy"]
HasPlaceholderHint == "random_string" \in PropNames(schema)

\* C1 (as stated): reconciling the result of reconcile(P, S) against S again
\* returns that same mapping, also when the first result is empty.
C1_Idempotent == rpc = "twice" => out2 = out1

\* C1 (amended): the second reconciliation returns the first result
\* unchanged, except when the first result is empty and the schema declares
\* random_string: then the second pass yields the placeholder mapping.
C1_IdempotentUnlessEmptied ==
    rpc = "twice" =>
        IF ~Truthy(out1) /\ HasPlaceholderHint
        THEN out2 = PlaceholderArgs
        ELSE out2 = out1

C1_Witness ==
    /\ rpc = "twice"
    /\ Truthy(out1)
    /\ out1 # payload
    /\ HasPlaceholderHint

\* C2 (as stated): with the placeholder hint, reconciling any payload, empty
\* or not, yields exactly {random_string: "dummy"}.
C2_PlaceholderAlways ==
    (rpc # "in" /\ HasPlaceholderHint) => out1 = PlaceholderArgs

\* C2 (amended): with the placeholder hint, reconciling the empty payload
\* yields exactly {random_string: "dummy"}.
C2_PlaceholderOnEmpty ==
    (rpc # "in" /\ HasPlaceholderHint /\ ~Truthy(payload))
        => out1 = PlaceholderArgs

C2_Witness ==
    /\ rpc = "once"
    /\ HasPlaceholderHint
    /\ ~Truthy(payload)
    /\ Len(schema) > 1
    /\ schema[1].name # "random_string"

\* C3: against a schema with at least one declared parameter, every key of
\* the reconciled mapping is a declared parameter name.
C3_KeysDeclared ==
    (rpc # "in" /\ Len(schema) > 0) => DOMAIN out1 \subseteq PropNames(schema)

C3_Witness ==
    /\ rpc = "once"
    /\ Len(schema) > 0
    /\ \E k \in DOMAIN payload : k \notin PropNames(schema)
    /\ Truthy(out1)

\* C4: when filtering leaves nothing, the payload has `query`, and the schema
\* has no `query` parameter but a string-typed one, the result is exactly
\* {p: payload[query]} for the first string-typed parameter p in declared
\* order.
C4_QueryToFirstString ==
    (/\ rpc # "in"
     /\ (DOMAIN payload) \cap PropNames(schema) = {}
     /\ "query" \in DOMAIN payload
     /\ "query" \notin PropNames(schema)
     /\ \E i \in DOMAIN schema : schema[i].type = "string")
    => \E i \in DOMAIN schema :
          /\ schema[i].type = "string"
          /\ \A j \in 1..(i - 1) : schema[j].type # "string"
          /\ DOMAIN out1 = {schema[i].name}
          /\ out1[schema[i].name] = payload["query"]

C4_Witness ==
    /\ rpc = "once"
    /\ (DOMAIN payload) \cap PropNames(schema) = {}
    /\ "query" \in DOMAIN payload
    /\ Cardinality(DOMAIN payload) > 1
    /\ Len(schema) = 3
    /\ schema[1].type = "integer"
    /\ schema[2].type = "string"
    /\ schema[3].type = "string"
    /\ DOMAIN out1 = {schema[2].name}

(***************************************************************************)
(* Claims about the bridge, the facade and the sessions.                   *)
(***************************************************************************)
Returned(c) == c \in active /\ cpc[c] = "returned"
OnWorkerPath(c) == c \in active /\ cpc[c] \in {"waiting", "shutdown"}

\* the sessions that a thread of call c has used
SessionsOf(c) == {s \in Sids : \E r \in Roles : <<c, r>> \in susers[s]}
Running(s) == sstate[s] \in {"launched", "ready"}

\* the value a caller gets when future.result has timed out
TimeoutFailure(c) ==
    IF IsLoad(c) THEN ToolList(<<>>) ELSE RunError(ToolName(c), "")

\* C5 (as stated): on the worker path the caller's wait is bounded: once
\* the bound (30 for a tool, 60 for discovery) is exceeded the call returns,
\* whether or not the worker has finished; so no caller is still inside the
\* call a full clock step after its bound.
C5_BoundedWait ==
    \A c \in Calls : OnWorkerPath(c) => now - t0[c] < WaitBound(c) + TickLen

\* C6: a bridged call that returns after its bound was exceeded returns the
\* timeout failure, and no session started for it is still running.
C6_TimeoutLeavesNoSession ==
    \A c \in Calls :
        (Returned(c) /\ timedOut[c]) =>
            /\ result[c] = TimeoutFailure(c)
            /\ \A s \in SessionsOf(c) : ~Running(s)

C6_Witness ==
    \E c \in Calls :
        /\ Returned(c)
        /\ timedOut[c]
        /\ entry[c] = "run"
        /\ sess[c] # 0
        /\ sstate[sess[c]] = "closed"

\* C7 (as stated): the same tool, arguments and peer behaviour give the
\* identical result from a thread without a running loop (call 1) and from
\* a thread with one (call 2).
C7_SameResult ==
    (/\ Returned(1) /\ Returned(2)
     /\ entry[1] = entry[2] /\ input[1] = input[2] /\ tool[1] = tool[2]
     /\ ~loopRunning[1] /\ loopRunning[2]
     /\ fate[1] = fate[2])
    => result[1] = result[2]

\* C7 (amended): the results are identical provided the worker thread is
\* started and its future completes before the 30 bound of the worker path.
C7_SameResultWithinBound ==
    (/\ Returned(1) /\ Returned(2)
     /\ entry[1] = entry[2] /\ input[1] = input[2] /\ tool[1] = tool[2]
     /\ ~loopRunning[1] /\ loopRunning[2]
     /\ fate[1] = fate[2]
     /\ ~late[2])
    => result[1] = result[2]

C7_Witness ==
    /\ Returned(1) /\ Returned(2)
    /\ entry[1] = "run" /\ entry[2] = "run"
    /\ opThread[1] = "caller" /\ opThread[2] = "worker"
    /\ fate[1] = "ok2" /\ fate[2] = "ok2"
    /\ ~late[2]
    /\ now > t0[2]
    /\ result[2] = Text(<<"r1", "\n", "r2">>)

\* C8 (as stated): every invocation of _run and of _arun ends with a text,
\* whatever the input and whatever fails; none raises.
C8_AlwaysText ==
    \A c \in Calls :
        (Returned(c) /\ entry[c] \in {"run", "arun"}) => result[c].kind = "text"

\* C9: once the scope that opened a session is left, and so once the call
\* has returned, every session the call opened is closed, on every exit
\* path.
C9_SessionsClosed ==
    \A c \in Calls :
        (c \in active /\ (opc[c] \in {"done", "finished"} \/ cpc[c] = "returned"))
        => \A s \in SessionsOf(c) : sstate[s] = "closed"

C9_Witness ==
    \E c \in Calls :
        /\ Returned(c)
        /\ IsLoad(c)
        /\ fate[c] = "timeout45"
        /\ sess[c] # 0
        /\ sstate[sess[c]] = "closed"

\* C10: no session ever has two requests in flight; two calls never have
\* the same session; a session is used by one thread only, the one that
\* runs the coroutine (the worker thread on the worker path).
C10_SessionPerCall ==
    /\ \A s \in Sids : inflight[s] <= 1
    /\ \A s \in Sids : Cardinality(susers[s]) <= 1
    /\ \A c, d \in Calls : (c # d /\ sess[c] # 0) => sess[c] # sess[d]
    /\ \A c \in Calls : sess[c] # 0 => susers[sess[c]] = {Thread(c)}

C10_Witness ==
    /\ sess[1] # 0 /\ sess[2] # 0
    /\ sess[1] # sess[2]
    /\ inflight[sess[1]] = 1
    /\ inflight[sess[2]] = 1
    /\ opThread[2] = "worker"
    /\ cpc[2] = "waiting"

\* C11: the bridge (_run, load_tools_sync) runs the coroutine on the calling
\* thread exactly when that thread has no running event loop, and otherwise
\* on a worker thread with an event loop created for it; no thread ever has
\* two running event loops, and the coroutine never runs on a thread whose
\* loop was already running.
C11_DispatchByLoop ==
    \A c \in Calls :
        (c \in active /\ IsBridge(c)) =>
            /\ cloop[c] <= 1
            /\ starts[c] > 0 => (opThread[c] = "caller" <=> ~loopRunning[c])
            /\ (starts[c] > 0 /\ loopRunning[c]) => wloop[c] # "none"
            /\ wloop[c] # "none" => opThread[c] = "worker"

C11_Witness ==
    \E c \in Calls :
        /\ c \in active /\ IsBridge(c)
        /\ loopRunning[c]
        /\ opc[c] = "awaiting"
        /\ opThread[c] = "worker"
        /\ wloop[c] = "running"
        /\ cloop[c] = 1

\* C12: when a bridged call has returned (with a result, a failure or after
\* a timeout), the event loop of its worker thread is not running any more:
\* it was closed before the return.
C12_WorkerLoopClosed ==
    \A c \in Calls :
        Returned(c) =>
            /\ wloop[c] # "running"
            /\ (IsBridge(c) /\ loopRunning[c] /\ starts[c] > 0)
                  => wloop[c] = "closed"

C12_Witness ==
    \E c \in Calls :
        /\ Returned(c)
        /\ IsLoad(c)
        /\ timedOut[c]
        /\ wloop[c] = "closed"

\* C13: a bridged call cannot deadlock and does not duplicate work: every
\* call returns at last, and in every state the coroutine of a call has been
\* started at most once and has sent at most one request, on the direct
\* path, on the worker path and when the worker path fails.
C13_ReturnsAndStartsOnce ==
    /\ [](\A c \in Calls : starts[c] <= 1 /\ reqs[c] <= 1)
    /\ <>(cpc[1] = "returned")

C13_Witness ==
    /\ Returned(1)
    /\ entry[1] = "run"
    /\ loopRunning[1]
    /\ timedOut[1]
    /\ starts[1] = 1
    /\ reqs[1] = 1

\* the requests of the protocol, as opposed to the messages of the handshake
Requests == {"list_tools", "call_tool"}

\* C14: on every session, every list_tools or call_tool request comes after
\* the completion of the handshake on that session, and requests are in
\* flight only on a session whose handshake is complete.
C14_HandshakeFirst ==
    \A s \in Sids :
        /\ \A i \in DOMAIN slog[s] :
              slog[s][i] \in Requests =>
                  \E j \in 1..(i - 1) : slog[s][j] = "initialized"
        /\ inflight[s] > 0 => sstate[s] = "ready"

C14_Witness ==
    \E s \in Sids :
        /\ slog[s] = <<"initialize", "initialized", "list_tools",
                       "call_tool", "call_tool">>
        /\ inflight[s] = 1

\* the calls of the tool facade and of the loader
IsFacade(c) == c \in active /\ entry[c] \in {"run", "arun", "load_sync"}

\* C15: when the subprocess cannot be started, or exits before the handshake
\* is done, the call sends no list_tools or call_tool request (and has no
\* session when the start itself failed); a tool invocation ends with a
\* failure text and discovery ends with the empty list.
C15_LaunchFailure ==
    \A c \in Calls :
        (IsFacade(c) /\ fate[c] \in {"launch_fail", "handshake_fail"}) =>
            /\ reqs[c] = 0
            /\ fate[c] = "launch_fail" => sess[c] = 0
            /\ \A s \in SessionsOf(c) : slog[s] = <<"initialize">>
            /\ Returned(c) =>
                  IF IsLoad(c)
                  THEN result[c] = ToolList(<<>>)
                  ELSE result[c] \in
                         {ExecError(ToolName(c), "launch failed"),
                          ExecError(ToolName(c), "handshake failed"),
                          TimeoutFailure(c)}

C15_Witness ==
    \E c \in Calls :
        /\ Returned(c)
        /\ entry[c] = "run"
        /\ fate[c] = "launch_fail"
        /\ launches[c] = 1
        /\ reqs[c] = 0
        /\ result[c] = ExecError("echo", "launch failed")

\* C16: when the 45 timeout of discovery fires, at whatever point (launch,
\* handshake, the list request, leaving the session after the descriptors
\* were converted), the loader's value is the empty list, never a part of
\* the catalog, and the session of the discovery is closed when the
\* coroutine is over.
C16_TimeoutAllOrNothing ==
    \A c \in Calls :
        (c \in active /\ IsLoad(c) /\ fate[c] = "timeout45") =>
            /\ pending[c] = ToolList(<<>>)
            /\ opc[c] \in {"done", "finished"} =>
                  /\ opResult[c] = ToolList(<<>>)
                  /\ \A s \in SessionsOf(c) : sstate[s] = "closed"
            /\ Returned(c) =>
                  /\ result[c] = ToolList(<<>>)
                  /\ \A s \in SessionsOf(c) : sstate[s] = "closed"

C16_Witness ==
    \E c \in Calls :
        /\ Returned(c)
        /\ IsLoad(c)
        /\ fate[c] = "timeout45"
        /\ ~timedOut[c]
        /\ reqs[c] = 1
        /\ sstate[sess[c]] = "closed"
        /\ result[c] = ToolList(<<>>)

\* the integration points that start the tool server
IsPoint(c) == c \in active /\ entry[c] \in {"crew", "load_sync", "dspy_init"}

\* C17 (as stated): at every integration point, when the URL or the token
\* is missing (not set, or empty), the call ends with an error before any
\* subprocess is started and before any request.
C17_ConfigErrorBeforeLaunch ==
    \A c \in Calls :
        (IsPoint(c) /\ (Missing(env[c].url) \/ Missing(env[c].token))) =>
            /\ launches[c] = 0
            /\ reqs[c] = 0
            /\ Returned(c) => result[c].kind = "raised"

\* the peer's application-level failures of an invoke request
RemoteFailures == {"is_error", "rpc_error"}

\* what the facade returns for a success response with these parts
SuccessText(parts) == Text(JoinLines(parts))

\* C18 (as stated): when the peer reports a failure of the invoke request,
\* the returned text differs from the text of a success result with the
\* same content, and contains the peer's message.
C18_RemoteFailureDistinct ==
    \A c \in Calls :
        (/\ Returned(c) /\ entry[c] \in {"run", "arun"}
         /\ ~timedOut[c]
         /\ fate[c] \in RemoteFailures)
        => /\ result[c] # SuccessText(ResponseParts(fate[c]))
           /\ \E i \in DOMAIN result[c].val :
                 <<result[c].val[i]>> = ResponseParts(fate[c])

\* C19: for a success response of one or more parts, _arun_with_args
\* returns the parts' texts joined with a newline, in the order received (a
\* single part unchanged), and so does the facade whenever its wait for the
\* worker has not timed out.
C19_PartsJoined ==
    \A c \in Calls :
        (c \in active /\ entry[c] \in {"run", "arun"}
         /\ fate[c] \in {"ok1", "ok2"})
        => LET expected == IF fate[c] = "ok1" THEN Text(<<"r1">>)
                           ELSE Text(<<"r1", "\n", "r2">>)
           IN  /\ opc[c] \in {"done", "finished"} => opResult[c] = expected
               /\ (Returned(c) /\ ~timedOut[c]) => result[c] = expected

C19_Witness ==
    \E c \in Calls :
        /\ Returned(c)
        /\ entry[c] = "arun"
        /\ fate[c] = "ok2"
        /\ result[c] = Text(<<"r1", "\n", "r2">>)

\* an invocation without arguments: no input at all, or keyword arguments
\* or a JSON object whose values are all null
NoArguments(inp) ==
    \/ ~Truthy(inp.kwargs) /\ inp.form = "empty"
    \/ Truthy(inp.kwargs) /\ \A k \in DOMAIN inp.kwargs : inp.kwargs[k] = NoneVal
    \/ /\ ~Truthy(inp.kwargs) /\ inp.form = "obj"
       /\ \A k \in DOMAIN inp.obj : inp.obj[k] = NoneVal

\* C20: a tool whose schema declares random_string, invoked without
\* arguments, sends exactly {random_string: "dummy"}, and returns the
\* content of the peer's success response.
C20_PlaceholderSent ==
    \A c \in Calls :
        (/\ c \in active /\ entry[c] \in {"run", "arun"}
         /\ "random_string" \in PropNames(ToolSchema(c))
         /\ NoArguments(input[c])
         /\ starts[c] > 0)
        => /\ sent[c] = PlaceholderArgs
           /\ (Returned(c) /\ ~timedOut[c] /\ fate[c] \in {"ok1", "ok2"})
                 => result[c] = SuccessText(ResponseParts(fate[c]))

C20_Witness ==
    \E c \in Calls :
        /\ Returned(c)
        /\ entry[c] = "run"
        /\ ToolName(c) = "list_buckets"
        /\ Truthy(input[c].kwargs)
        /\ NoArguments(input[c])
        /\ fate[c] = "ok1"
        /\ sent[c] = PlaceholderArgs
        /\ result[c] = Text(<<"r1">>)

\* the invocations of a tool
IsTool(c) == c \in active /\ entry[c] \in {"run", "arun"}

\* the calls whose input has been decoded into args
Decoded(c) == IsTool(c) /\ cpc[c] # "start" /\ ~DecodeRaises(input[c])

\* an input whose payload has keys, all of them null
AllNull(inp) == NoArguments(inp) /\ ~(~Truthy(inp.kwargs) /\ inp.form = "empty")

\* C21: no key with a null value is handed to reconciliation or sent to the
\* peer, whether it came as a keyword argument or in a JSON object; an
\* input of null-valued keys only is handed on as the empty payload and
\* sends what the empty payload sends.
C21_NoNullSent ==
    \A c \in Calls :
        IsTool(c) =>
            /\ Decoded(c) => \A k \in DOMAIN args[c] : args[c][k] # NoneVal
            /\ \A k \in DOMAIN sent[c] : sent[c][k] # NoneVal
            /\ (Decoded(c) /\ AllNull(input[c])) => args[c] = EmptyMap
            /\ (starts[c] > 0 /\ AllNull(input[c]))
                  => sent[c] = Reconcile(EmptyMap, ToolSchema(c))

C21_Witness ==
    \E c \in Calls :
        /\ Returned(c)
        /\ entry[c] = "arun"
        /\ input[c].form = "obj"
        /\ \E k \in DOMAIN input[c].obj : input[c].obj[k] = NoneVal
        /\ \E k \in DOMAIN input[c].obj : input[c].obj[k] # NoneVal
        /\ ToolName(c) = "echo"
        /\ sent[c] = [k \in {"text"} |-> "x"]
        /\ fate[c] = "ok1"

\* C22: against a schema that is absent or declares no parameter, the
\* reconciled mapping is the payload itself: nothing is filtered out, `query`
\* is not remapped, no placeholder is made.
C22_EmptySchemaPassesAll ==
    (rpc # "in" /\ Len(schema) = 0) => out1 = payload

C22_Witness ==
    /\ rpc = "once"
    /\ Len(schema) = 0
    /\ "query" \in DOMAIN payload
    /\ Cardinality(DOMAIN payload) > 1
    /\ out1 = payload

\* the payload the decoding priority names for an input: the kwargs when
\* given, else the object tool_input parses to, else the text of the value
\* it parses to under "query", else tool_input itself under "query", else
\* nothing
PayloadByPriority(inp) ==
    IF Truthy(inp.kwargs) THEN inp.kwargs
    ELSE IF inp.form = "empty" THEN EmptyMap
    ELSE IF inp.form = "obj" THEN inp.obj
    ELSE IF inp.form = "val" THEN [k \in {"query"} |-> PyStr(inp.text)]
    ELSE [k \in {"query"} |-> inp.text]

\* C23: once _run or _arun has decoded its input, the payload is the one
\* the priority kwargs > parsed tool_input > raw tool_input names, less the
\* None values: a tool_input that is not JSON is sent whole under "query"
C23_DecodePriority ==
    \A c \in Calls :
        (IsTool(c) /\ c \in active /\ cpc[c] # "start")
            => /\ Decoded(c)
               /\ args[c] = DropNone(PayloadByPriority(input[c]))

\* C28: load_tools_sync never raises, with or without a running loop: a
\* discovery that has returned has returned a list, and the empty list
\* unless the peer's catalog came (subprocess not started, handshake or
\* response failed, either timeout, worker thread not started)
C28_LoadNeverRaises ==
    \A c \in Calls :
        (c \in active /\ IsLoad(c) /\ Returned(c)) =>
            /\ result[c].kind = "tools"
            /\ fate[c] \notin Catalogs => result[c] = ToolList(<<>>)

\* the ways run_analysis ends, and what it returns or raises in each
CrewExits == {"crew_ok", "crew_init_fail", "crew_build_fail", "crew_kickoff_fail"}

CrewOutcome(f) ==
    IF f = "crew_ok" THEN Text(<<"crew result">>)
    ELSE IF f = "crew_init_fail" THEN Raised("initialize failed")
    ELSE IF f = "crew_build_fail" THEN Raised("create failed")
    ELSE Raised("kickoff failed")

InRunAnalysis(c) ==
    c \in active /\ entry[c] = "crew"
      /\ cpc[c] \in {"crew_init", "crew_build", "crew_kickoff", "crew_cleanup"}

\* C24: run_analysis calls the toolset's cleanup exactly once on every way
\* out (kickoff done, initialize failed, agents or tasks not created,
\* kickoff failed), never before; and whether or not cleanup itself fails,
\* the caller gets kickoff's result or the exception that ended the run
C24_CleanupOnce ==
    \A c \in Calls :
        /\ InRunAnalysis(c) => cleanups[c] = 0
        /\ (Returned(c) /\ entry[c] = "crew" /\ launches[c] > 0) =>
              /\ fate[c] \in CrewExits
              /\ cleanups[c] = 1
              /\ cleaned[c] \in {"ok", "failed"}
              /\ result[c] = CrewOutcome(fate[c])

C24_Witness ==
    \E c \in Calls :
        /\ Returned(c) /\ entry[c] = "crew"
        /\ fate[c] = "crew_ok"
        /\ cleaned[c] = "failed"
        /\ cleanups[c] = 1
        /\ result[c] = Text(<<"crew result">>)

\* the places of the descriptors of ds that convert, in order
Convertible(ds) == {i \in DOMAIN ds : Converts(ds[i])}

\* C29: a discovery that got the peer's catalog and did not time out returns
\* one tool for each descriptor that converts and none for one that does
\* not, in the order of the catalog; each tool is exposed as keboola_ + the
\* peer's name and keeps the peer's name, which is the name an invocation
\* of a loaded tool puts in its call_tool request
C29_SkipsFailedDescriptor ==
    \A c \in Calls :
        /\ (c \in active /\ IsLoad(c) /\ Returned(c) /\ fate[c] \in Catalogs
            /\ ~timedOut[c])
           => LET ds == Descriptors(fate[c])
                  ts == result[c].val
              IN  /\ result[c].kind = "tools"
                  /\ Len(ts) = Cardinality(Convertible(ds))
                  /\ \A i \in DOMAIN ts :
                        /\ \E j \in Convertible(ds) :
                              /\ ts[i].mcp_tool_name = ds[j]
                              /\ Cardinality({k \in Convertible(ds) : k < j}) = i - 1
                        /\ ts[i].name = "keboola_" \o ts[i].mcp_tool_name
        /\ (IsTool(c) /\ reqs[c] > 0)
           => /\ reqName[c] = ToolCatalog[tool[c]].mcp_tool_name
              /\ ToolCatalog[tool[c]].name = "keboola_" \o reqName[c]
              /\ \E i \in DOMAIN LoadedTools :
                    /\ LoadedTools[i].name = ToolCatalog[tool[c]].name
                    /\ LoadedTools[i].mcp_tool_name = reqName[c]

C29_Witness ==
    \E c \in Calls :
        /\ c \in active /\ IsLoad(c) /\ Returned(c)
        /\ fate[c] = "catalog_odd"
        /\ result[c] = ToolList(<<KeboolaTool("echo"), KeboolaTool("list_buckets")>>)

\* the calls of initialize() that have returned normally, other than c
InitCompleted(c) ==
    \E d \in active \ {c} :
        entry[d] = "dspy_init" /\ Returned(d) /\ result[d].kind = "tools"

\* the calls of initialize(), other than c, that have made a tool of every
\* descriptor of their catalog
InitConverted(c) ==
    \E d \in active \ {c} : entry[d] = "dspy_init" /\ fate[d] = "catalog"

WholeConversion(r) ==
    [i \in DOMAIN Descriptors(r) |-> DspyTool(Descriptors(r)[i])]

\* C26: whatever initialize() calls were made and however they ended, an
\* agent that reports itself initialized holds the whole conversion of one
\* discovery response, and the flag, once set, stays set
C26_ToolsWhole ==
    /\ [](initialized => \E r \in Catalogs : tools = WholeConversion(r))
    /\ [][initialized => initialized']_vars

\* how many call_tool requests were sent on session s
ToolCallsOn(s) == Cardinality({i \in DOMAIN slog[s] : slog[s][i] = "call_tool"})

\* C27: in analyze_data / design_pipeline every tool call of the agent run
\* goes to the session that this call opened, which is open as long as the
\* agent runs and closed once the call has returned or raised; no tool call
\* is ever sent on the session that the tools stored by initialize() are
\* bound to
C27_ToolsOfOwnSession ==
    /\ \A c \in active :
          entry[c] = "dspy_run" =>
              /\ opc[c] \in {"agent", "agent_wait"} =>
                    sess[c] # 0 /\ sstate[sess[c]] = "ready"
              /\ reqs[c] > 0 => ToolCallsOn(sess[c]) = reqs[c] - 1
              /\ (Returned(c) /\ sess[c] # 0) => sstate[sess[c]] = "closed"
    /\ toolsSess # 0 => ToolCallsOn(toolsSess) = 0

C27_Witness ==
    /\ toolsSess = 1
    /\ sstate[1] = "closed"
    /\ entry[2] = "dspy_run" /\ Returned(2)
    /\ sess[2] = 2
    /\ ToolCallsOn(2) = MaxAgentCalls
    /\ sstate[2] = "closed"

\* the responses of the peer to call_tool, and the failures before it
SamePeerBehaviour ==
    fate[1] = fate[2]
      /\ fate[1] \in ToolResponses \cup {"launch_fail", "handshake_fail"}

\* C30: _arun (call 1) and _run (call 2) given the same input that both can
\* decode hand the same arguments to _arun_with_args, which sends the same
\* reconciled arguments; and when the peer behaves the same in both, they
\* return the same text, unless _run's wait for its worker timed out
C30_SameThroughBothEntries ==
    (entry[1] = "arun" /\ entry[2] = "run" /\ active = {1, 2}
     /\ input[1] = input[2] /\ tool[1] = tool[2]
     /\ ~DecodeRaises(input[1]))
    => /\ cpc[2] # "start" => args[1] = args[2]
       /\ (starts[1] > 0 /\ starts[2] > 0) => sent[1] = sent[2]
       /\ (Returned(1) /\ Returned(2) /\ SamePeerBehaviour /\ ~timedOut[2])
             => result[1] = result[2]

C30_Witness ==
    /\ entry[1] = "arun" /\ entry[2] = "run"
    /\ Returned(1) /\ Returned(2)
    /\ input[1].form = "val" /\ input[2] = input[1]
    /\ loopRunning[2]
    /\ args[2] = [k \in {"query"} |-> "True"]
    /\ sent[2] = sent[1] /\ sent[2] # EmptyMap
    /\ fate[1] = "ok2" /\ fate[2] = "ok2"
    /\ result[2] = result[1]
    /\ result[2].kind = "text"

====
